---- MODULE Spec2Model ----
(***************************************************************************)
(* Handbook content pipeline of dima-tolmachev/website:                    *)
(*   src/lib/handbook.ts                     page repository + navigation  *)
(*   src/components/handbook/article-content.tsx   previous/next links     *)
(*   src/app/front-end-engineer-handbook/[slug]/page.tsx   article route   *)
(*   src/components/handbook/sidebar.tsx     expanded categories           *)
(*   src/lib/edge-config.ts                  personal info                 *)
(*                                                                         *)
(* Strings are sequences of one-character strings, so that endsWith,       *)
(* replace(/\.md$/, '') and template literals are computed, not assumed.   *)
(* JavaScript values that may be undefined, null, a number or a string are *)
(* tagged records, so that `||` (falsy) and `??` (nullish) differ as they  *)
(* do in the code.                                                         *)
(***************************************************************************)
EXTENDS Integers, Sequences, FiniteSets, TLC

VARIABLES dir, call, ret

vars == <<dir, call, ret>>

(***************************************************************************)
(* JavaScript values                                                       *)
(***************************************************************************)
Undefined == [t |-> "undefined"]

Null == [t |-> "null"]

Num(n) == [t |-> "number", v |-> n]

Str(s) == [t |-> "string", v |-> s]

\* ToBoolean: undefined, null, 0 and '' are falsy; an object (a record without
\* a tag) is truthy.
Truthy(x) ==
  CASE "t" \notin DOMAIN x -> TRUE
    [] x.t = "undefined" -> FALSE
    [] x.t = "null" -> FALSE
    [] x.t = "number" -> x.v # 0
    [] x.t = "string" -> Len(x.v) > 0
    [] OTHER -> TRUE

\* a is null or undefined (the test of `??`).
Nullish(x) == "t" \in DOMAIN x /\ x.t \in {"undefined", "null"}

\* a || b
OrElse(a, b) == IF Truthy(a) THEN a ELSE b

\* a ?? b
Coalesce(a, b) == IF Nullish(a) THEN b ELSE a

(***************************************************************************)
(* Strings and file names                                                  *)
(***************************************************************************)
DotMdSuffix == <<".", "m", "d">>

\* String.prototype.endsWith
EndsWith(s, suffix) ==
  /\ Len(s) >= Len(suffix)
  /\ SubSeq(s, Len(s) - Len(suffix) + 1, Len(s)) = suffix

\* fileName.replace(/\.md$/, '')
StripMd(fileName) ==
  IF EndsWith(fileName, DotMdSuffix)
  THEN SubSeq(fileName, 1, Len(fileName) - Len(DotMdSuffix))
  ELSE fileName

IndexName == <<"i", "n", "d", "e", "x">>

IndexMd == IndexName \o DotMdSuffix

\* slug === 'index' ? '' : slug
SlugOfStem(stem) == IF stem = IndexName THEN <<>> ELSE stem

\* the slug a file name is listed under
SlugOfFile(fileName) == SlugOfStem(StripMd(fileName))

\* a variant without the reserved mapping of the empty slug: `${slug}.md` always
FileNameOfSlugPlain(slug) == slug \o DotMdSuffix

\* slug === '' ? 'index.md' : `${slug}.md`
FileNameOfSlug(slug) == IF slug = <<>> THEN IndexMd ELSE slug \o DotMdSuffix

(***************************************************************************)
(* The content directory: the sequence of entries fs.readdirSync returns,  *)
(* each a file name with what gray-matter makes of the file: either a      *)
(* parse error (parses = FALSE) or the front-matter data.                  *)
(***************************************************************************)
FrontMatter(title, order, category, categoryOrder) ==
  [title |-> title, description |-> Undefined, keywords |-> Undefined,
   order |-> order, category |-> category, categoryOrder |-> categoryOrder]

NoFrontMatter == FrontMatter(Undefined, Undefined, Undefined, Undefined)

File(name, parses, data) == [name |-> name, parses |-> parses, data |-> data]

Names(d) == {d[i].name : i \in 1..Len(d)}

\* fs.existsSync(path.join(handbookDirectory, fileName))
ExistsSync(d, fileName) == fileName \in Names(d)

\* the entry of an existing file
FileNamed(d, fileName) == d[CHOOSE i \in 1..Len(d) : d[i].name = fileName]

(***************************************************************************)
(* Outcomes of a call: it returns a value or it throws.                    *)
(***************************************************************************)
Throw == [kind |-> "throw"]

Return(v) == [kind |-> "return", value |-> v]

Returned(o) == o.kind = "return"

(***************************************************************************)
(* Generic array helpers                                                   *)
(***************************************************************************)
\* Array.prototype.find: the first element satisfying Test, else undefined.
Find(s, Test(_)) ==
  IF \E i \in 1..Len(s) : Test(s[i])
  THEN s[CHOOSE i \in 1..Len(s) : Test(s[i]) /\ \A j \in 1..(i - 1) : ~Test(s[j])]
  ELSE Undefined

\* Array.prototype.findIndex, 0-based as in JavaScript; -1 when none.
FindIndex(s, Test(_)) ==
  IF \E i \in 1..Len(s) : Test(s[i])
  THEN (CHOOSE i \in 1..Len(s) : Test(s[i]) /\ \A j \in 1..(i - 1) : ~Test(s[j])) - 1
  ELSE -1

\* (a, b) => a.order - b.order, the compare function of both sorts
CompareOrder(a, b) == a.order.v - b.order.v

\* Where a stable sort puts x in an already sorted array: after every element
\* that does not compare greater than x.
RECURSIVE InsertSorted(_, _)
InsertSorted(sorted, x) ==
  IF sorted = <<>> THEN <<x>>
  ELSE IF CompareOrder(sorted[Len(sorted)], x) <= 0
       THEN Append(sorted, x)
       ELSE Append(InsertSorted(SubSeq(sorted, 1, Len(sorted) - 1), x),
                   sorted[Len(sorted)])

\* Array.prototype.sort((a, b) => a.order - b.order): ascending, stable (ES2019)
RECURSIVE SortByOrder(_)
SortByOrder(s) ==
  IF s = <<>> THEN <<>>
  ELSE InsertSorted(SortByOrder(SubSeq(s, 1, Len(s) - 1)), s[Len(s)])

\* pages.push(...items) over a sequence of arrays
RECURSIVE Flatten(_)
Flatten(ss) == IF ss = <<>> THEN <<>> ELSE Head(ss) \o Flatten(Tail(ss))

(***************************************************************************)
(* slugifyCategory                                                         *)
(***************************************************************************)
UpperChars == <<"A", "B", "C", "D", "E", "F", "G", "H", "I", "J", "K", "L", "M",
                "N", "O", "P", "Q", "R", "S", "T", "U", "V", "W", "X", "Y", "Z">>

LowerChars == <<"a", "b", "c", "d", "e", "f", "g", "h", "i", "j", "k", "l", "m",
                "n", "o", "p", "q", "r", "s", "t", "u", "v", "w", "x", "y", "z">>

DigitChars == <<"0", "1", "2", "3", "4", "5", "6", "7", "8", "9">>

\* one character of String.prototype.toLowerCase
LowerChar(c) ==
  IF \E i \in 1..Len(UpperChars) : UpperChars[i] = c
  THEN LowerChars[CHOOSE i \in 1..Len(UpperChars) : UpperChars[i] = c]
  ELSE c

ToLowerCase(s) == [i \in 1..Len(s) |-> LowerChar(s[i])]

\* the character class [a-z0-9]
IsAlnum(c) ==
  \/ \E i \in 1..Len(LowerChars) : LowerChars[i] = c
  \/ \E i \in 1..Len(DigitChars) : DigitChars[i] = c

\* s.replace(/[^a-z0-9]+/g, '-'): each maximal run outside [a-z0-9] becomes one '-'
RECURSIVE ReplaceRuns(_)
ReplaceRuns(s) ==
  IF s = <<>> THEN <<>>
  ELSE IF IsAlnum(Head(s)) THEN <<Head(s)>> \o ReplaceRuns(Tail(s))
  ELSE IF Len(s) > 1 /\ ~IsAlnum(s[2]) THEN ReplaceRuns(Tail(s))
  ELSE <<"-">> \o ReplaceRuns(Tail(s))

\* a variant without the second replace: hyphens at the ends stay
TrimHyphensNone(s) == s

\* s.replace(/(^-|-$)/g, ''): one '-' at the start and one at the end are removed
TrimHyphens(s) ==
  LET a == IF Len(s) > 0 /\ s[1] = "-" THEN Tail(s) ELSE s
  IN  IF Len(a) > 0 /\ a[Len(a)] = "-" THEN SubSeq(a, 1, Len(a) - 1) ELSE a

slugifyCategory(category) == TrimHyphens(ReplaceRuns(ToLowerCase(category)))

(***************************************************************************)
(* Map<K, V>: entries in insertion order; set() of an existing key keeps   *)
(* its position.                                                           *)
(***************************************************************************)
MapHas(m, k) == \E i \in 1..Len(m) : m[i].key = k

MapGet(m, k) ==
  IF MapHas(m, k) THEN m[CHOOSE i \in 1..Len(m) : m[i].key = k].value ELSE Undefined

MapSet(m, k, v) ==
  IF MapHas(m, k)
  THEN [i \in 1..Len(m) |-> IF m[i].key = k THEN [key |-> k, value |-> v] ELSE m[i]]
  ELSE Append(m, [key |-> k, value |-> v])

(***************************************************************************)
(* src/lib/handbook.ts                                                     *)
(***************************************************************************)
DefaultOrder == 999

DefaultCategoryOrder == 999

\* fileNames.filter(fileName => fileName.endsWith('.md'))
MdFiles(d) == SelectSeq(d, LAMBDA f : EndsWith(f.name, DotMdSuffix))

\* the object the .map callback of getHandbookNavigation returns for one file
NavItemOf(f) ==
  LET slug == StripMd(f.name)
  IN  [slug |-> SlugOfStem(slug),
       title |-> OrElse(f.data.title, Str(slug)),
       order |-> Coalesce(f.data.order, Num(DefaultOrder)),
       category |-> OrElse(f.data.category, Null),
       categoryOrder |-> Coalesce(f.data.categoryOrder, Num(DefaultCategoryOrder))]

\* allPages, when matter() parses every file
AllPages(d) == [i \in 1..Len(MdFiles(d)) |-> NavItemOf(MdFiles(d)[i])]

\* allPages.find(p => p.slug === '') || null
IntroductionOf(allPages) == OrElse(Find(allPages, LAMBDA p : p.slug = <<>>), Null)

\* allPages.filter(p => p.slug !== '' && p.category)
CategorizedPages(allPages) ==
  SelectSeq(allPages, LAMBDA p : p.slug # <<>> /\ Truthy(p.category))

\* categoryOrderMap.set(page.category, page.categoryOrder || 999)
FirstSeenOrder(page) == OrElse(page.categoryOrder, Num(DefaultCategoryOrder))

\* one iteration of categorizedPages.forEach
GroupPage(m, page) ==
  IF ~Truthy(page.category) THEN m
  ELSE LET fresh == ~MapHas(m.categoryMap, page.category)
           cm == IF fresh THEN MapSet(m.categoryMap, page.category, <<>>)
                 ELSE m.categoryMap
           om == IF fresh
                 THEN MapSet(m.categoryOrderMap, page.category, FirstSeenOrder(page))
                 ELSE m.categoryOrderMap
       IN  [categoryMap |-> MapSet(cm, page.category,
                                   Append(MapGet(cm, page.category), page)),
            categoryOrderMap |-> om]

\* categorizedPages.forEach(...) from the two empty maps
RECURSIVE GroupPages(_, _)
GroupPages(m, pages) ==
  IF pages = <<>> THEN m ELSE GroupPages(GroupPage(m, Head(pages)), Tail(pages))

\* a variant that is ascending but not stable: equal orders come out reversed
SortItemsTiesReversed(items) ==
  SortByOrder([i \in 1..Len(items) |-> items[Len(items) + 1 - i]])

\* items.sort((a, b) => a.order - b.order)
SortItems(items) == SortByOrder(items)

\* categoryMap.forEach((items) => { items.sort(...) })
SortEachCategory(cm) ==
  [i \in 1..Len(cm) |-> [key |-> cm[i].key, value |-> SortItems(cm[i].value)]]

\* the object the .map callback makes of one [name, items] entry
CategoryOf(entry, om) ==
  [name |-> entry.key.v,
   slug |-> slugifyCategory(entry.key.v),
   order |-> OrElse(MapGet(om, entry.key), Num(DefaultCategoryOrder)),
   items |-> entry.value]

\* a variant that is ascending but not stable: equal orders come out reversed
SortCategoriesTiesReversed(cats) ==
  SortByOrder([i \in 1..Len(cats) |-> cats[Len(cats) + 1 - i]])

\* .sort((a, b) => a.order - b.order) of the categories array
SortCategories(cats) == SortByOrder(cats)

\* the Navigation built from allPages
NavigationOf(allPages) ==
  LET m == GroupPages([categoryMap |-> <<>>, categoryOrderMap |-> <<>>],
                      CategorizedPages(allPages))
      cm == SortEachCategory(m.categoryMap)
  IN  [introduction |-> IntroductionOf(allPages),
       categories |->
         SortCategories([i \in 1..Len(cm) |-> CategoryOf(cm[i], m.categoryOrderMap)])]

\* getHandbookNavigation(): matter() throws on the first file it cannot parse
getHandbookNavigation(d) ==
  IF \E i \in 1..Len(MdFiles(d)) : ~MdFiles(d)[i].parses
  THEN Throw
  ELSE Return(NavigationOf(AllPages(d)))

\* a variant that lists the introduction before and after the categories
getAllHandbookPagesIntroductionTwice(d) ==
  LET nav == getHandbookNavigation(d)
  IN  IF ~Returned(nav) THEN Throw
      ELSE LET cats == nav.value.categories
               introduction == IF Truthy(nav.value.introduction)
                               THEN <<nav.value.introduction>> ELSE <<>>
           IN  Return(introduction
                      \o Flatten([i \in 1..Len(cats) |-> cats[i].items])
                      \o introduction)

\* a variant that leaves the introduction out of the list
getAllHandbookPagesNoIntroduction(d) ==
  LET nav == getHandbookNavigation(d)
  IN  IF ~Returned(nav) THEN Throw
      ELSE LET cats == nav.value.categories
           IN  Return(Flatten([i \in 1..Len(cats) |-> cats[i].items]))

\* getAllHandbookPages(): introduction first, then each category's items
getAllHandbookPages(d) ==
  LET nav == getHandbookNavigation(d)
  IN  IF ~Returned(nav) THEN Throw
      ELSE LET cats == nav.value.categories
           IN  Return((IF Truthy(nav.value.introduction)
                       THEN <<nav.value.introduction>> ELSE <<>>)
                      \o Flatten([i \in 1..Len(cats) |-> cats[i].items]))

\* the empty keywords array of `data.keywords || []`
EmptyArray == [t |-> "array", v |-> <<>>]

\* a variant whose order falls back with || as title does: a declared 0 is lost
PageOfFileOrderFalsy(f, slug) ==
  IF ~f.parses THEN Throw
  ELSE Return([slug |-> slug,
               title |-> OrElse(f.data.title, Str(slug)),
               description |-> OrElse(f.data.description, Str(<<>>)),
               keywords |-> OrElse(f.data.keywords, EmptyArray),
               order |-> OrElse(f.data.order, Num(DefaultOrder)),
               category |-> OrElse(f.data.category, Undefined),
               categoryOrder |-> Coalesce(f.data.categoryOrder, Undefined)])

\* getHandbookPage past its existence check: matter() parses the file or throws,
\* and the page is assembled. content and contentHtml are the markdown body and
\* what remark makes of it, which no other field depends on and which are left out
PageOfFile(f, slug) ==
  IF ~f.parses THEN Throw
  ELSE Return([slug |-> slug,
               title |-> OrElse(f.data.title, Str(slug)),
               description |-> OrElse(f.data.description, Str(<<>>)),
               keywords |-> OrElse(f.data.keywords, EmptyArray),
               order |-> Coalesce(f.data.order, Num(DefaultOrder)),
               category |-> OrElse(f.data.category, Undefined),
               categoryOrder |-> Coalesce(f.data.categoryOrder, Undefined)])

\* a variant without the existsSync check: readFileSync throws on a missing file
getHandbookPageUnchecked(d, slug) ==
  LET fileName == FileNameOfSlug(slug)
  IN  IF ~ExistsSync(d, fileName) THEN Throw
      ELSE PageOfFile(FileNamed(d, fileName), slug)

\* getHandbookPage(slug)
getHandbookPage(d, slug) ==
  LET fileName == FileNameOfSlug(slug)
  IN  IF ~ExistsSync(d, fileName) THEN Return(Null)
      ELSE PageOfFile(FileNamed(d, fileName), slug)

\* getAllHandbookSlugs(): reads names only, never the files
getAllHandbookSlugs(d) == [i \in 1..Len(MdFiles(d)) |-> SlugOfFile(MdFiles(d)[i].name)]

(***************************************************************************)
(* src/lib/handbook.ts: categoryMeta, a plain object indexed by category   *)
(* name. Indexing it with a name it does not list reads Object.prototype:  *)
(* undefined for most names, an inherited function for 'constructor',      *)
(* 'toString' and the other names every object inherits.                   *)
(***************************************************************************)
\* a JavaScript array of strings
ArrayOf(strings) == [t |-> "array", v |-> strings]

Fundamentals ==
  <<"F", "u", "n", "d", "a", "m", "e", "n", "t", "a", "l", "s">>

FundamentalsMeta ==
  [description |->
     Str(<<"M", "a", "s", "t", "e", "r", " ", "t", "h", "e", " ", "c", "o",
           "r", "e", " ", "c", "o", "n", "c", "e", "p", "t", "s", " ", "o",
           "f", " ", "f", "r", "o", "n", "t", "-", "e", "n", "d", " ", "d",
           "e", "v", "e", "l", "o", "p", "m", "e", "n", "t", " ", "i", "n",
           "c", "l", "u", "d", "i", "n", "g", " ", "J", "a", "v", "a", "S",
           "c", "r", "i", "p", "t", ",", " ", "H", "T", "M", "L", ",", " ",
           "C", "S", "S", ",", " ", "a", "n", "d", " ", "b", "r", "o", "w",
           "s", "e", "r", " ", "f", "u", "n", "d", "a", "m", "e", "n", "t",
           "a", "l", "s", ".">>),
   keywords |->
     ArrayOf(<<Str(<<"j", "a", "v", "a", "s", "c", "r", "i", "p", "t", " ",
                    "f", "u", "n", "d", "a", "m", "e", "n", "t", "a", "l",
                    "s">>),
              Str(<<"w", "e", "b", " ", "f", "u", "n", "d", "a", "m", "e",
                    "n", "t", "a", "l", "s">>),
              Str(<<"f", "r", "o", "n", "t", "e", "n", "d", " ", "b", "a",
                    "s", "i", "c", "s">>),
              Str(<<"b", "r", "o", "w", "s", "e", "r", " ", "a", "p", "i",
                    "s">>)>>)]

FrameworksAndLibraries ==
  <<"F", "r", "a", "m", "e", "w", "o", "r", "k", "s", " ", "&", " ", "L",
    "i", "b", "r", "a", "r", "i", "e", "s">>

FrameworksAndLibrariesMeta ==
  [description |->
     Str(<<"L", "e", "a", "r", "n", " ", "m", "o", "d", "e", "r", "n", " ",
           "f", "r", "o", "n", "t", "-", "e", "n", "d", " ", "f", "r", "a",
           "m", "e", "w", "o", "r", "k", "s", " ", "a", "n", "d", " ", "l",
           "i", "b", "r", "a", "r", "i", "e", "s", " ", "i", "n", "c", "l",
           "u", "d", "i", "n", "g", " ", "R", "e", "a", "c", "t", ",", " ",
           "T", "y", "p", "e", "S", "c", "r", "i", "p", "t", ",", " ", "a",
           "n", "d", " ", "s", "t", "a", "t", "e", " ", "m", "a", "n", "a",
           "g", "e", "m", "e", "n", "t", ".">>),
   keywords |->
     ArrayOf(<<Str(<<"r", "e", "a", "c", "t">>),
              Str(<<"t", "y", "p", "e", "s", "c", "r", "i", "p", "t">>),
              Str(<<"f", "r", "o", "n", "t", "e", "n", "d", " ", "f", "r",
                    "a", "m", "e", "w", "o", "r", "k", "s">>),
              Str(<<"s", "t", "a", "t", "e", " ", "m", "a", "n", "a", "g",
                    "e", "m", "e", "n", "t">>),
              Str(<<"r", "e", "a", "c", "t", " ", "h", "o", "o", "k", "s">>)>>)]

AdvancedTopics ==
  <<"A", "d", "v", "a", "n", "c", "e", "d", " ", "T", "o", "p", "i", "c",
    "s">>

AdvancedTopicsMeta ==
  [description |->
     Str(<<"A", "d", "v", "a", "n", "c", "e", "d", " ", "f", "r", "o", "n",
           "t", "-", "e", "n", "d", " ", "e", "n", "g", "i", "n", "e", "e",
           "r", "i", "n", "g", " ", "t", "o", "p", "i", "c", "s", " ", "i",
           "n", "c", "l", "u", "d", "i", "n", "g", " ", "p", "e", "r", "f",
           "o", "r", "m", "a", "n", "c", "e", " ", "o", "p", "t", "i", "m",
           "i", "z", "a", "t", "i", "o", "n", ",", " ", "s", "y", "s", "t",
           "e", "m", " ", "d", "e", "s", "i", "g", "n", ",", " ", "a", "n",
           "d", " ", "a", "r", "c", "h", "i", "t", "e", "c", "t", "u", "r",
           "e", ".">>),
   keywords |->
     ArrayOf(<<Str(<<"w", "e", "b", " ", "p", "e", "r", "f", "o", "r", "m",
                    "a", "n", "c", "e">>),
              Str(<<"f", "r", "o", "n", "t", "e", "n", "d", " ", "a", "r",
                    "c", "h", "i", "t", "e", "c", "t", "u", "r", "e">>),
              Str(<<"s", "y", "s", "t", "e", "m", " ", "d", "e", "s", "i",
                    "g", "n">>),
              Str(<<"s", "c", "a", "l", "a", "b", "i", "l", "i", "t", "y">>)>>)]

Career ==
  <<"C", "a", "r", "e", "e", "r">>

CareerMeta ==
  [description |->
     Str(<<"C", "a", "r", "e", "e", "r", " ", "d", "e", "v", "e", "l", "o",
           "p", "m", "e", "n", "t", " ", "g", "u", "i", "d", "a", "n", "c",
           "e", " ", "f", "o", "r", " ", "f", "r", "o", "n", "t", "-", "e",
           "n", "d", " ", "e", "n", "g", "i", "n", "e", "e", "r", "s", " ",
           "i", "n", "c", "l", "u", "d", "i", "n", "g", " ", "i", "n", "t",
           "e", "r", "v", "i", "e", "w", " ", "p", "r", "e", "p", "a", "r",
           "a", "t", "i", "o", "n", " ", "a", "n", "d", " ", "g", "r", "o",
           "w", "t", "h", " ", "s", "t", "r", "a", "t", "e", "g", "i", "e",
           "s", ".">>),
   keywords |->
     ArrayOf(<<Str(<<"f", "r", "o", "n", "t", "e", "n", "d", " ", "c", "a",
                    "r", "e", "e", "r">>),
              Str(<<"s", "o", "f", "t", "w", "a", "r", "e", " ", "e", "n",
                    "g", "i", "n", "e", "e", "r", "i", "n", "g", " ", "c",
                    "a", "r", "e", "e", "r">>),
              Str(<<"t", "e", "c", "h", " ", "i", "n", "t", "e", "r", "v",
                    "i", "e", "w", "s">>),
              Str(<<"c", "a", "r", "e", "e", "r", " ", "g", "r", "o", "w",
                    "t", "h">>)>>)]

\* two of the names every object inherits from Object.prototype
ConstructorName == <<"c", "o", "n", "s", "t", "r", "u", "c", "t", "o", "r">>

ToStringName == <<"t", "o", "S", "t", "r", "i", "n", "g">>

ObjectPrototypeNames == {ConstructorName, ToStringName}

\* an inherited function: truthy, with no description and no keywords
InheritedFunction == [description |-> Undefined, keywords |-> Undefined]

\* categoryMeta[name]
categoryMeta(name) ==
  CASE name = Fundamentals -> FundamentalsMeta
    [] name = FrameworksAndLibraries -> FrameworksAndLibrariesMeta
    [] name = AdvancedTopics -> AdvancedTopicsMeta
    [] name = Career -> CareerMeta
    [] name \in ObjectPrototypeNames -> InheritedFunction
    [] OTHER -> Undefined

(***************************************************************************)
(* src/components/handbook/article-content.tsx                             *)
(***************************************************************************)
\* pages[i] with a 0-based index; out of range reads as undefined
At(pages, i) == IF i >= 0 /\ i < Len(pages) THEN pages[i + 1] ELSE Undefined

\* pages.findIndex(p => p.slug === page.slug)
CurrentIndex(page, pages) == FindIndex(pages, LAMBDA p : p.slug = page.slug)

\* currentIndex > 0 ? pages[currentIndex - 1] : null
PrevPage(currentIndex, pages) ==
  IF currentIndex > 0 THEN At(pages, currentIndex - 1) ELSE Null

\* a variant whose bound is off by one: currentIndex < pages.length
NextPageOffByOne(currentIndex, pages) ==
  IF currentIndex < Len(pages) THEN At(pages, currentIndex + 1) ELSE Null

\* currentIndex < pages.length - 1 ? pages[currentIndex + 1] : null
NextPage(currentIndex, pages) ==
  IF currentIndex < Len(pages) - 1 THEN At(pages, currentIndex + 1) ELSE Null

\* what ArticleContent computes before it renders
ArticleContent(page, pages) ==
  LET currentIndex == CurrentIndex(page, pages)
  IN  [currentIndex |-> currentIndex,
       prevPage |-> PrevPage(currentIndex, pages),
       nextPage |-> NextPage(currentIndex, pages)]

(***************************************************************************)
(* src/app/front-end-engineer-handbook/[slug]/page.tsx                     *)
(***************************************************************************)
NotFound == [kind |-> "notFound"]

SiteUrl ==
  <<"h", "t", "t", "p", "s", ":", "/", "/", "d", "i", "m", "a", "-", "t",
  "o", "l", "m", "a", "c", "h", "e", "v", ".", "c", "o", "m">>

HandbookUrl ==
  SiteUrl \o
  <<"/", "f", "r", "o", "n", "t", "-", "e", "n", "d", "-", "e", "n", "g",
  "i", "n", "e", "e", "r", "-", "h", "a", "n", "d", "b", "o", "o", "k">>

\* one { '@type': 'ListItem', position, name, item }
ListItem(position, name, item) ==
  [position |-> position, name |-> name, item |-> item]

\* the Home and Handbook items every breadcrumb list starts with
BaseBreadcrumbs ==
  <<ListItem(1, Str(<<"H", "o", "m", "e">>), Str(SiteUrl)),
    ListItem(2, Str(<<"F", "r", "o", "n", "t", "-", "e", "n", "d", " ", "E", "n", "g", "i",
                  "n", "e", "e", "r", " ", "H", "a", "n", "d", "b", "o", "o", "k">>),
             Str(HandbookUrl))>>

\* page.category.toLowerCase().replace(/[^a-z0-9]+/g, '-')
CategoryAnchor(category) == ReplaceRuns(ToLowerCase(category))

\* `https://dima-tolmachev.com/front-end-engineer-handbook/${slug}`
PageUrl(slug) == HandbookUrl \o <<"/">> \o slug

\* a variant that never adds the category item
generateBreadcrumbJsonLdFlat(page, slug) ==
  [itemListElement |->
     Append(BaseBreadcrumbs, ListItem(3, page.title, Str(PageUrl(slug))))]

\* generateBreadcrumbJsonLd(page, slug)
generateBreadcrumbJsonLd(page, slug) ==
  [itemListElement |->
     IF Truthy(page.category)
     THEN BaseBreadcrumbs
          \o <<ListItem(3, page.category,
                        Str(HandbookUrl \o <<"#">> \o CategoryAnchor(page.category.v))),
               ListItem(4, page.title, Str(PageUrl(slug)))>>
     ELSE Append(BaseBreadcrumbs, ListItem(3, page.title, Str(PageUrl(slug))))]

\* array.join(separator) on an array of strings
RECURSIVE Join(_, _)
Join(strings, separator) ==
  IF strings = <<>> THEN <<>>
  ELSE IF Len(strings) = 1 THEN strings[1].v
  ELSE strings[1].v \o separator \o Join(Tail(strings), separator)

CommaSpace == <<",", " ">>

PageNotFound ==
  <<"P", "a", "g", "e", " ", "N", "o", "t", " ", "F", "o", "u", "n", "d">>

TitleSuffix ==
  <<" ", "|", " ", "F", "r", "o", "n", "t", "-", "e", "n", "d", " ", "E",
    "n", "g", "i", "n", "e", "e", "r", " ", "H", "a", "n", "d", "b", "o",
    "o", "k">>

\* page.category && categoryMeta[page.category]?.keywords || []
CategoryKeywords(page) ==
  OrElse(IF ~Truthy(page.category) THEN page.category
         ELSE LET meta == categoryMeta(page.category.v)
              IN  IF Nullish(meta) THEN Undefined ELSE meta.keywords,
         EmptyArray)

\* generateMetadata({ params }); the fields that are the same for every
\* page (authors, images, robots) are left out
generateMetadata(d, slug) ==
  LET page == getHandbookPage(d, slug)
  IN  IF ~Returned(page) THEN Throw
      ELSE IF ~Truthy(page.value) THEN Return([title |-> Str(PageNotFound)])
      ELSE LET p == page.value
               fullTitle == Str(p.title.v \o TitleSuffix)
               keywords == p.keywords.v \o CategoryKeywords(p).v
               url == Str(PageUrl(slug))
               openGraph == [title |-> fullTitle,
                             description |-> p.description,
                             url |-> url]
           IN  Return([title |-> p.title,
                       description |-> p.description,
                       keywords |-> Str(Join(keywords, CommaSpace)),
                       openGraph |->
                         IF Truthy(p.category)
                         THEN [section |-> p.category] @@ openGraph
                         ELSE openGraph,
                       twitter |-> [title |-> fullTitle,
                                    description |-> p.description],
                       alternates |-> [canonical |-> url]])

Technology ==
  <<"T", "e", "c", "h", "n", "o", "l", "o", "g", "y">>

\* generateJsonLd(page, slug); the fields that are the same for every page
\* (author, publisher, inLanguage, isPartOf) are left out
generateJsonLd(page, slug) ==
  LET url == Str(PageUrl(slug))
      article == [headline |-> page.title,
                  description |-> page.description,
                  mainEntityOfPage |-> url,
                  url |-> url,
                  keywords |-> Str(Join(page.keywords.v, CommaSpace)),
                  articleSection |-> OrElse(page.category, Str(Technology))]
  IN  IF Truthy(page.category) /\ Truthy(categoryMeta(page.category.v))
      THEN [about |-> [name |-> page.category,
                       description |-> categoryMeta(page.category.v).description]]
           @@ article
      ELSE article

\* one { question, answer } of faqs
Faq(question, answer) == [question |-> question, answer |-> answer]

\* the faqs array after the three category tests
FaqsOf(page) ==
  LET title == page.title.v
      lower == ToLowerCase(title)
  IN  IF page.category = Str(Fundamentals)
      THEN <<Faq(Str(<<"W", "h", "a", "t", " ", "a", "r", "e", " ", "t",
                        "h", "e", " ", "k", "e", "y", " ">>
                      \o lower \o
                      <<" ", "c", "o", "n", "c", "e", "p", "t", "s", " ",
                        "e", "v", "e", "r", "y", " ", "f", "r", "o", "n",
                        "t", "-", "e", "n", "d", " ", "d", "e", "v", "e",
                        "l", "o", "p", "e", "r", " ", "s", "h", "o", "u",
                        "l", "d", " ", "k", "n", "o", "w", "?">>),
                  page.description)>>
      ELSE IF page.category = Str(FrameworksAndLibraries)
      THEN <<Faq(Str(<<"H", "o", "w", " ", "d", "o", " ", "I", " ", "g",
                        "e", "t", " ", "s", "t", "a", "r", "t", "e", "d",
                        " ", "w", "i", "t", "h", " ">>
                      \o title \o <<"?">>),
                  page.description)>>
      ELSE IF page.category = Str(Career)
      THEN <<Faq(Str(<<"H", "o", "w", " ", "c", "a", "n", " ">>
                      \o lower \o
                      <<" ", "h", "e", "l", "p", " ", "m", "y", " ", "f",
                        "r", "o", "n", "t", "-", "e", "n", "d", " ", "c",
                        "a", "r", "e", "e", "r", "?">>),
                  page.description)>>
      ELSE <<>>

\* generateFAQJsonLd(page): null, or an FAQPage whose mainEntity has one
\* Question per faq
generateFAQJsonLd(page) ==
  IF ~Truthy(page.category) THEN Null
  ELSE LET faqs == FaqsOf(page)
       IN  IF Len(faqs) = 0 THEN Null
           ELSE [mainEntity |->
                   [i \in 1..Len(faqs) |->
                      [name |-> faqs[i].question,
                       acceptedAnswer |-> [text |-> faqs[i].answer]]]]

\* HandbookArticlePage({ params }): navigation, pages and page are loaded in
\* this order; a throw of any of them ends the render
HandbookArticlePage(d, slug) ==
  LET navigation == getHandbookNavigation(d)
      pages == getAllHandbookPages(d)
      page == getHandbookPage(d, slug)
  IN  IF ~Returned(navigation) \/ ~Returned(pages) \/ ~Returned(page) THEN Throw
      ELSE IF ~Truthy(page.value) THEN NotFound
      ELSE [kind |-> "render",
            navigation |-> navigation.value,
            page |-> page.value,
            pages |-> pages.value,
            articleJsonLd |-> generateJsonLd(page.value, slug),
            breadcrumbJsonLd |-> generateBreadcrumbJsonLd(page.value, slug),
            faqJsonLd |-> generateFAQJsonLd(page.value),
            article |-> ArticleContent(page.value, pages.value)]

(***************************************************************************)
(* Inputs: what an author can put into content/handbook, and the slugs a   *)
(* request can carry.                                                      *)
(***************************************************************************)
MaxFiles == 3

DotMd == DotMdSuffix

NotMarkdown == <<"a", ".", "m", "d", "x">>

RegularStems == <<"a", "b", "c", "d", "e">>

RegularName(i) == <<RegularStems[i]>> \o DotMdSuffix

CategoryNames == <<<<"J", "S">>, <<"U", "I", " ", "&", " ", "U", "X">>>>

Orders == {Undefined, Num(0)}

CategoryOrders == {Undefined, Num(0), Num(1)}

\* an order above the default of 999
LargeOrder == 1000

\* front matter that declares every field, with an order of 0
EveryFieldDeclared ==
  [title |-> Str(<<"T">>), description |-> Str(<<"D">>),
   keywords |-> [t |-> "array", v |-> <<Str(<<"k">>)>>],
   order |-> Num(0), category |-> Str(CategoryNames[2]), categoryOrder |-> Num(0)]

\* front matter that declares title, description and category as ''
EmptyStringsDeclared ==
  [title |-> Str(<<>>), description |-> Str(<<>>), keywords |-> Undefined,
   order |-> Undefined, category |-> Str(<<>>), categoryOrder |-> Undefined]

\* front matter of a regular page: no category; the first category with every
\* order and with every categoryOrder; the second category with or without a
\* categoryOrder; every field declared; empty strings declared
FrontMatters ==
  {FrontMatter(Undefined, Undefined, Undefined, Undefined),
   EveryFieldDeclared, EmptyStringsDeclared}
  \cup {FrontMatter(Undefined, o, Str(CategoryNames[1]), Undefined) :
          o \in Orders \cup {Num(LargeOrder)}}
  \cup {FrontMatter(Undefined, Undefined, Str(CategoryNames[1]), co) :
          co \in CategoryOrders}
  \cup {FrontMatter(Undefined, Undefined, Str(CategoryNames[2]), co) :
          co \in {Undefined, Num(1)}}

Malformed(name) == File(name, FALSE, NoFrontMatter)

\* the number of regular pages of a directory
RegularCount(d) ==
  Cardinality({i \in 1..Len(RegularStems) : RegularName(i) \in Names(d)})

\* front matter of index.md: none, or one that declares a category
IndexFiles ==
  {File(IndexMd, TRUE, fm) :
     fm \in {NoFrontMatter, FrontMatter(Undefined, Num(0), Str(<<"J", "S">>), Num(1))}}
  \cup {Malformed(IndexMd)}

\* a file named '.md', with and without a category, and a file that is no
\* markdown
OtherFiles ==
  {File(DotMd, TRUE, FrontMatter(Undefined, Undefined, Str(<<"J", "S">>), Num(1))),
   File(DotMd, TRUE, NoFrontMatter),
   File(NotMarkdown, TRUE, NoFrontMatter)}

\* the files an author may add next: the special names once each, and a regular
\* page under the next unused name (regular names are interchangeable)
NextFiles(d) ==
  LET regular ==
        IF RegularCount(d) < Len(RegularStems)
        THEN {File(RegularName(RegularCount(d) + 1), TRUE, fm) : fm \in FrontMatters}
        ELSE {}
  IN  {f \in IndexFiles \cup OtherFiles \cup regular : f.name \notin Names(d)}

\* slugs a request may ask for: listed ones, the literal 'index', a missing one
RequestSlugs == {<<>>, <<"a">>, IndexName, <<"z", "z">>}

(***************************************************************************)
(* The state machine: the author fills the directory; between the author's *)
(* edits the site's entry points are called on it, one request at a time   *)
(* (spec section 5: request-scoped, nothing kept across calls). call is    *)
(* the call in progress, ret its outcome under the name of the function    *)
(* that produced it.                                                       *)
(***************************************************************************)
NoCall == [op |-> "none"]

Init ==
  /\ dir = <<>>
  /\ call = NoCall
  /\ ret = NoCall

\* the author adds a content file (the only writer of the directory)
AddFile ==
  /\ call = NoCall
  /\ Len(dir) < MaxFiles
  /\ \E f \in NextFiles(dir) : dir' = Append(dir, f)
  /\ call' = NoCall
  /\ ret' = NoCall

CallGetAllHandbookSlugs ==
  /\ call = NoCall
  /\ call' = [op |-> "getAllHandbookSlugs"]
  /\ ret' = [getAllHandbookSlugs |-> Return(getAllHandbookSlugs(dir))]
  /\ UNCHANGED dir

CallGetHandbookNavigation ==
  /\ call = NoCall
  /\ call' = [op |-> "getHandbookNavigation"]
  /\ ret' = [getHandbookNavigation |-> getHandbookNavigation(dir)]
  /\ UNCHANGED dir

CallGetAllHandbookPages ==
  /\ call = NoCall
  /\ call' = [op |-> "getAllHandbookPages"]
  /\ ret' = [getAllHandbookPages |-> getAllHandbookPages(dir)]
  /\ UNCHANGED dir

CallGetHandbookPage ==
  \E slug \in RequestSlugs :
    /\ call = NoCall
    /\ call' = [op |-> "getHandbookPage", slug |-> slug]
    /\ ret' = [getHandbookPage |-> getHandbookPage(dir, slug)]
    /\ UNCHANGED dir

CallHandbookArticlePage ==
  \E slug \in RequestSlugs :
    /\ call = NoCall
    /\ call' = [op |-> "HandbookArticlePage", slug |-> slug]
    /\ ret' = [HandbookArticlePage |-> HandbookArticlePage(dir, slug)]
    /\ UNCHANGED dir

\* the call returns to its caller; none of its values is kept
Finish ==
  /\ call # NoCall
  /\ call' = NoCall
  /\ ret' = NoCall
  /\ UNCHANGED dir

Next ==
  \/ AddFile
  \/ CallGetAllHandbookSlugs
  \/ CallGetHandbookNavigation
  \/ CallGetAllHandbookPages
  \/ CallGetHandbookPage
  \/ CallHandbookArticlePage
  \/ Finish

Spec == Init /\ [][Next]_vars

(***************************************************************************)
(* A request to the article route: Next.js calls generateMetadata and the  *)
(* page component HandbookArticlePage for the same slug, each on its own.  *)
(***************************************************************************)
CallGenerateMetadata ==
  \E slug \in RequestSlugs :
    /\ call = NoCall
    /\ call' = [op |-> "generateMetadata", slug |-> slug]
    /\ ret' = [generateMetadata |-> generateMetadata(dir, slug)]
    /\ UNCHANGED dir

RouteNext ==
  \/ AddFile
  \/ CallGenerateMetadata
  \/ CallHandbookArticlePage
  \/ Finish

RouteSpec == Init /\ [][RouteNext]_vars

(***************************************************************************)
(* The article route over one content file a.md whose front matter takes   *)
(* every category that matters to the SEO fields: none, '', the four names *)
(* of categoryMeta, two names categoryMeta does not list, one of them      *)
(* ending in punctuation, and a name every object inherits.                *)
(***************************************************************************)
CPlusPlus == <<"C", "+", "+">>

SeoCategories ==
  {Undefined, Str(<<>>), Str(Fundamentals), Str(FrameworksAndLibraries),
   Str(AdvancedTopics), Str(Career), Str(CategoryNames[1]), Str(CPlusPlus),
   Str(ConstructorName)}

SeoTitles == {Undefined, Str(<<"H", "o", "o", "k", "s">>)}

SeoDescriptions == {Undefined, Str(<<"D">>)}

SeoFrontMatters ==
  {[title |-> title, description |-> description, keywords |-> Undefined,
    order |-> Undefined, category |-> category, categoryOrder |-> Undefined] :
     title \in SeoTitles, description \in SeoDescriptions,
     category \in SeoCategories}

SeoInit ==
  /\ \E data \in SeoFrontMatters : dir = <<File(RegularName(1), TRUE, data)>>
  /\ call = NoCall
  /\ ret = NoCall

SeoNext ==
  \/ CallGenerateMetadata
  \/ CallHandbookArticlePage
  \/ Finish

SeoSpec == SeoInit /\ [][SeoNext]_vars

(***************************************************************************)
(* src/components/handbook/sidebar.tsx: SidebarComponent. In this          *)
(* specification dir is the content directory the navigation prop was      *)
(* built from, call is the last callback React ran, and ret is the state   *)
(* of the mounted component: the navigation prop, the pathname,            *)
(* expandedCategories, mounted, and under effects what the last commit     *)
(* left to run: "mount" for the effects of the first commit, the name of   *)
(* the changed dependency for the route effect, "none" when nothing is     *)
(* left. React runs the effects of a commit before it delivers the next    *)
(* click or route change.                                                  *)
(***************************************************************************)
HandbookPath ==
  <<"/", "f", "r", "o", "n", "t", "-", "e", "n", "d", "-", "e", "n", "g",
    "i", "n", "e", "e", "r", "-", "h", "a", "n", "d", "b", "o", "o", "k">>

\* the positions of s at which pattern occurs
Occurrences(s, pattern) ==
  {i \in 1..(Len(s) - Len(pattern) + 1) :
     SubSeq(s, i, i + Len(pattern) - 1) = pattern}

\* s.replace(pattern, ''), pattern a string: the first occurrence is removed
RemoveFirst(s, pattern) ==
  IF Occurrences(s, pattern) = {} THEN s
  ELSE LET i == CHOOSE j \in Occurrences(s, pattern) :
                  \A k \in Occurrences(s, pattern) : j <= k
       IN  SubSeq(s, 1, i - 1) \o SubSeq(s, i + Len(pattern), Len(s))

\* currentSlug of a pathname
CurrentSlug(pathname) ==
  LET path == RemoveFirst(pathname, HandbookPath)
  IN  IF path = <<>> \/ path = <<"/">> THEN <<>> ELSE Tail(path)

\* category.items.some(item => item.slug === currentSlug)
HasItem(category, currentSlug) ==
  \E i \in 1..Len(category.items) : category.items[i].slug = currentSlug

\* navigation.categories.find(category => category.items.some(...))
RECURSIVE ActiveCategory(_, _)
ActiveCategory(categories, currentSlug) ==
  IF categories = <<>> THEN Undefined
  ELSE IF HasItem(Head(categories), currentSlug) THEN Head(categories)
  ELSE ActiveCategory(Tail(categories), currentSlug)

\* the first render: useState(new Set()), useState(false)
FirstRender(navigation, pathname) ==
  [navigation |-> navigation, pathname |-> pathname,
   expandedCategories |-> {}, mounted |-> FALSE, effects |-> "mount"]

\* the effects of the first commit: the mount effect sets mounted and expands
\* the active category; the route effect sees mounted = false and returns
MountEffects(state) ==
  LET activeCategory ==
        ActiveCategory(state.navigation.categories, CurrentSlug(state.pathname))
  IN  [state EXCEPT !.mounted = TRUE,
                    !.expandedCategories =
                      IF Truthy(activeCategory) THEN {activeCategory.slug} ELSE @,
                    !.effects = "mounted"]

\* a variant of the route effect that never expands
RouteEffectIdle(state) == [state EXCEPT !.effects = "none"]

\* a variant of the route effect that expands the active category alone
RouteEffectReplace(state) ==
  LET activeCategory ==
        ActiveCategory(state.navigation.categories, CurrentSlug(state.pathname))
  IN  IF ~state.mounted THEN [state EXCEPT !.effects = "none"]
      ELSE IF Truthy(activeCategory)
              /\ activeCategory.slug \notin state.expandedCategories
      THEN [state EXCEPT !.expandedCategories = {activeCategory.slug},
                         !.effects = "expandedCategories"]
      ELSE [state EXCEPT !.effects = "none"]

\* the route effect; the set it stores is a new one, so it runs once more
\* after the commit of that set
RouteEffect(state) ==
  LET activeCategory ==
        ActiveCategory(state.navigation.categories, CurrentSlug(state.pathname))
  IN  IF ~state.mounted THEN [state EXCEPT !.effects = "none"]
      ELSE IF Truthy(activeCategory)
              /\ activeCategory.slug \notin state.expandedCategories
      THEN [state EXCEPT !.expandedCategories = @ \cup {activeCategory.slug},
                         !.effects = "expandedCategories"]
      ELSE [state EXCEPT !.effects = "none"]

\* a variant of the updater that never deletes
ToggleUpdaterAddOnly(prev, categorySlug) == prev \cup {categorySlug}

\* the updater toggleCategory passes to setExpandedCategories
ToggleUpdater(prev, categorySlug) ==
  IF categorySlug \in prev THEN prev \ {categorySlug}
  ELSE prev \cup {categorySlug}

\* toggleCategory(categorySlug), and the commit of the set it stores
toggleCategory(state, categorySlug) ==
  [state EXCEPT !.expandedCategories = ToggleUpdater(@, categorySlug),
                !.effects = "expandedCategories"]

\* usePathname() returns another pathname, and the commit of that render
RouteChange(state, pathname) ==
  [state EXCEPT !.pathname = pathname, !.effects = "currentSlug"]

\* the category names of the sidebar's content files: none, two names, and a
\* third that differs from the second in punctuation only
UiSlashUx == <<"U", "I", "/", "U", "X">>

SidebarCategories ==
  {Undefined, Str(CategoryNames[1]), Str(CategoryNames[2]), Str(UiSlashUx)}

MaxSidebarFiles == 3

SidebarFiles == 1..MaxSidebarFiles

SidebarDirectories ==
  {[i \in SidebarFiles |->
      File(RegularName(i), TRUE,
           FrontMatter(Undefined, Undefined, category[i], Undefined))] :
     category \in [SidebarFiles -> SidebarCategories]}

\* the pathnames of the handbook index, of the three pages and of no page
Pathnames ==
  {HandbookPath} \cup
  {HandbookPath \o <<"/">> \o slug :
     slug \in {<<RegularStems[i]>> : i \in SidebarFiles} \cup {<<"z", "z">>}}

SidebarInit ==
  /\ dir \in SidebarDirectories
  /\ call = [op |-> "SidebarComponent"]
  /\ \E pathname \in Pathnames :
       ret = FirstRender(getHandbookNavigation(dir).value, pathname)

RunMountEffects ==
  /\ ret.effects = "mount"
  /\ call' = [op |-> "mountEffect"]
  /\ ret' = MountEffects(ret)
  /\ UNCHANGED dir

\* the route effect runs because one of its dependencies has changed
RunRouteEffect ==
  /\ ret.effects \in {"mounted", "currentSlug", "expandedCategories"}
  /\ call' = [op |-> "routeEffect", changed |-> ret.effects]
  /\ ret' = RouteEffect(ret)
  /\ UNCHANGED dir

\* a click on the button of one of the rendered categories
ClickCategory ==
  /\ ret.effects = "none"
  /\ \E i \in 1..Len(ret.navigation.categories) :
       LET categorySlug == ret.navigation.categories[i].slug
       IN  /\ call' = [op |-> "toggleCategory", categorySlug |-> categorySlug]
           /\ ret' = toggleCategory(ret, categorySlug)
  /\ UNCHANGED dir

Navigate ==
  /\ ret.effects = "none"
  /\ \E pathname \in Pathnames \ {ret.pathname} :
       /\ call' = [op |-> "routeChange", pathname |-> pathname]
       /\ ret' = RouteChange(ret, pathname)
  /\ UNCHANGED dir

SidebarNext ==
  \/ RunMountEffects
  \/ RunRouteEffect
  \/ ClickCategory
  \/ Navigate

SidebarSpec == SidebarInit /\ [][SidebarNext]_vars

(***************************************************************************)
(* A caller that keeps the Navigation it was returned, mutates it, and     *)
(* calls getHandbookNavigation() again on the unchanged directory. The     *)
(* module keeps nothing between calls: handbookDirectory is its only       *)
(* module-level binding, and every array and object of the result is       *)
(* allocated by the call. While the caller holds a Navigation, ret is what *)
(* it holds and call.first what the first call returned.                   *)
(***************************************************************************)
\* what a caller can make of a Navigation it holds: categories.pop(),
\* introduction = null, categories[0].items.length = 0
MutationsOf(nav) ==
  {[nav EXCEPT !.introduction = Null]}
  \cup (IF nav.categories = <<>> THEN {}
        ELSE {[nav EXCEPT !.categories = SubSeq(@, 1, Len(@) - 1)],
              [nav EXCEPT !.categories[1].items = <<>>]})

MutateNavigation ==
  /\ call.op = "getHandbookNavigation"
  /\ Returned(ret.getHandbookNavigation)
  /\ \E nav \in MutationsOf(ret.getHandbookNavigation.value) :
       /\ nav # ret.getHandbookNavigation.value
       /\ ret' = [getHandbookNavigation |-> Return(nav)]
  /\ call' = [op |-> "mutated", first |-> ret.getHandbookNavigation]
  /\ UNCHANGED dir

\* a variant that answers from what the caller holds, as a cache that shares
\* its value with its callers would
GetHandbookNavigationAgainShared ==
  /\ call.op \in {"getHandbookNavigation", "mutated"}
  /\ call' = [op |-> "getHandbookNavigation again",
              first |-> IF call.op = "mutated" THEN call.first
                        ELSE ret.getHandbookNavigation,
              held |-> ret.getHandbookNavigation]
  /\ ret' = ret
  /\ UNCHANGED dir

\* getHandbookNavigation() once more: the directory is scanned again
GetHandbookNavigationAgain ==
  /\ call.op \in {"getHandbookNavigation", "mutated"}
  /\ call' = [op |-> "getHandbookNavigation again",
              first |-> IF call.op = "mutated" THEN call.first
                        ELSE ret.getHandbookNavigation,
              held |-> ret.getHandbookNavigation]
  /\ ret' = [getHandbookNavigation |-> getHandbookNavigation(dir)]
  /\ UNCHANGED dir

SnapshotNext ==
  \/ AddFile
  \/ CallGetHandbookNavigation
  \/ MutateNavigation
  \/ GetHandbookNavigationAgain
  \/ Finish

SnapshotSpec == Init /\ [][SnapshotNext]_vars

(***************************************************************************)
(* slugifyCategory on its own: a category name is drawn, slugifyCategory   *)
(* is applied to it as getHandbookNavigation does for each category, and   *)
(* then to its own result.                                                 *)
(***************************************************************************)
MaxNameLen == 4

SlugifyAlphabet == {"A", "b", "7", "&", " ", "-"}

SlugifyInputs ==
  UNION {[1..n -> SlugifyAlphabet] : n \in 0..MaxNameLen} \cup {FrameworksAndLibraries}

SlugifyInit ==
  /\ dir = <<>>
  /\ \E name \in SlugifyInputs : call = [op |-> "name", category |-> name]
  /\ ret = NoCall

\* slug: slugifyCategory(name)
Slugify ==
  /\ call.op = "name"
  /\ call' = [op |-> "slugifyCategory", category |-> call.category]
  /\ ret' = [slugifyCategory |-> slugifyCategory(call.category)]
  /\ UNCHANGED dir

\* slugifyCategory of a slug it returned
SlugifyAgain ==
  /\ call.op = "slugifyCategory"
  /\ call' = [op |-> "slugifyCategory again", category |-> call.category]
  /\ ret' = [slugifyCategory |-> ret.slugifyCategory,
             again |-> slugifyCategory(ret.slugifyCategory)]
  /\ UNCHANGED dir

SlugifyNext == Slugify \/ SlugifyAgain

SlugifySpec == SlugifyInit /\ [][SlugifyNext]_vars

(***************************************************************************)
(* src/lib/edge-config.ts: getPersonalInfo() over the Edge Config store,   *)
(* a key-value store in which a key is absent (get() resolves to           *)
(* undefined) or holds a string.                                           *)
(***************************************************************************)
PersonalInfoKeys ==
  {"name", "title", "linkedin", "github", "youtube", "consultationLink",
   "consultationPrice"}

\* what a key may hold: nothing, the empty string, a string
StoredValues == {Undefined, Str(<<>>), Str(<<"x">>)}

EdgeConfigStores == [PersonalInfoKeys -> StoredValues]

\* get(key) of @vercel/edge-config
Get(store, key) == store[key]

YourName == <<"Y", "o", "u", "r", " ", "N", "a", "m", "e">>

ProfessionalTitle ==
  <<"P", "r", "o", "f", "e", "s", "s", "i", "o", "n", "a", "l", " ", "T",
  "i", "t", "l", "e">>

\* a variant whose placeholders replace a missing value only (??)
getPersonalInfoNullish(store) ==
  [name |-> Coalesce(Get(store, "name"), Str(YourName)),
   title |-> Coalesce(Get(store, "title"), Str(ProfessionalTitle)),
   linkedin |-> Get(store, "linkedin"),
   github |-> Get(store, "github"),
   youtube |-> Get(store, "youtube"),
   consultationLink |-> Get(store, "consultationLink"),
   consultationPrice |-> Get(store, "consultationPrice")]

\* getPersonalInfo(): the seven reads of Promise.all, then the returned object
getPersonalInfo(store) ==
  [name |-> OrElse(Get(store, "name"), Str(YourName)),
   title |-> OrElse(Get(store, "title"), Str(ProfessionalTitle)),
   linkedin |-> Get(store, "linkedin"),
   github |-> Get(store, "github"),
   youtube |-> Get(store, "youtube"),
   consultationLink |-> Get(store, "consultationLink"),
   consultationPrice |-> Get(store, "consultationPrice")]

PersonalInfoInit ==
  /\ dir = <<>>
  /\ \E store \in EdgeConfigStores : call = [op |-> "store", store |-> store]
  /\ ret = NoCall

CallGetPersonalInfo ==
  /\ call.op = "store"
  /\ call' = [op |-> "getPersonalInfo", store |-> call.store]
  /\ ret' = [getPersonalInfo |-> getPersonalInfo(call.store)]
  /\ UNCHANGED dir

PersonalInfoNext == CallGetPersonalInfo

PersonalInfoSpec == PersonalInfoInit /\ [][PersonalInfoNext]_vars

(***************************************************************************)
(* Vocabulary of the claims                                                *)
(***************************************************************************)
\* a value is a page (or a nav item): neither null nor undefined
IsPage(v) == v # Null /\ v # Undefined

\* positions of the directory whose file is a markdown file
MdPositions(d) == {i \in 1..Len(d) : EndsWith(d[i].name, DotMdSuffix)}

\* positions whose file lands in a category: markdown, a non-empty slug, a category
CategorizedPositions(d) ==
  {i \in MdPositions(d) : SlugOfFile(d[i].name) # <<>> /\ Truthy(d[i].data.category)}

\* positions of the categorized files that declare category `name`
PositionsOf(d, name) == {i \in CategorizedPositions(d) : d[i].data.category = Str(name)}

\* the first position of a non-empty set of positions
FirstOf(S) == CHOOSE i \in S : \A j \in S : i <= j

\* the position at which the file of a categorized item was enumerated
PositionOfSlug(d, slug) == CHOOSE i \in MdPositions(d) : SlugOfFile(d[i].name) = slug

\* getHandbookNavigation() returned, and the navigation it returned
NavigationReturned ==
  call.op = "getHandbookNavigation" /\ Returned(ret.getHandbookNavigation)

Navigation == ret.getHandbookNavigation.value

\* the article route rendered, and what it rendered
Rendered ==
  call.op = "HandbookArticlePage" /\ ret.HandbookArticlePage.kind = "render"

Render == ret.HandbookArticlePage

\* getAllHandbookSlugs() returned, and the slugs it returned
SlugsReturned == call.op = "getAllHandbookSlugs"

Slugs == ret.getAllHandbookSlugs.value

(***************************************************************************)
(* C1. Every slug getAllHandbookSlugs() returns resolves: getHandbookPage   *)
(* of it returns a non-null page, whatever the file names of the directory. *)
(* Fails on the code: a file named '.md' is listed under the empty slug,    *)
(* which getHandbookPage looks up as index.md.                              *)
(***************************************************************************)
C1_EveryListedSlugResolves ==
  SlugsReturned =>
    \A i \in 1..Len(Slugs) :
      LET page == getHandbookPage(dir, Slugs[i])
      IN  Returned(page) /\ IsPage(page.value)

(***************************************************************************)
(* C2. When the current page's slug is not in the flattened list           *)
(* (findIndex yields -1), ArticleContent computes no previous and no next  *)
(* page. Fails on the code: -1 < pages.length - 1 holds for a non-empty    *)
(* list, so next is pages[0].                                              *)
(***************************************************************************)
C2_UnlistedPageHasNoNeighbours ==
  (Rendered /\ Render.article.currentIndex = -1) =>
    (Render.article.prevPage = Null /\ Render.article.nextPage = Null)

(***************************************************************************)
(* C3. For a current page found at position i (0-based) of the flattened   *)
(* list of length n: previous is absent when i = 0 and the item at i-1     *)
(* otherwise; next is absent when i = n-1 and the item at i+1 otherwise.   *)
(***************************************************************************)
C3_PrevNextByPosition ==
  (Rendered /\ Render.article.currentIndex >= 0) =>
    LET i == Render.article.currentIndex
        n == Len(Render.pages)
    IN  /\ i < n
        /\ Render.pages[i + 1].slug = Render.page.slug
        /\ Render.article.prevPage = (IF i = 0 THEN Null ELSE Render.pages[i])
        /\ Render.article.nextPage = (IF i = n - 1 THEN Null ELSE Render.pages[i + 2])

\* C3 witness: an interior page of a three-page list, with both neighbours
C3_Witness ==
  /\ Rendered
  /\ Len(Render.pages) = 3
  /\ Render.article.currentIndex = 1
  /\ Render.article.prevPage = Render.pages[1]
  /\ Render.article.nextPage = Render.pages[3]

(***************************************************************************)
(* C4. Every category's order is the categoryOrder declared by the         *)
(* first-enumerated file of that category, and the sentinel 999 only when  *)
(* that file declares none. Fails on the code: a declared categoryOrder of *)
(* 0 is falsy and becomes 999.                                             *)
(***************************************************************************)
C4_CategoryOrderIsFirstDeclared ==
  NavigationReturned =>
    \A k \in 1..Len(Navigation.categories) :
      LET cat == Navigation.categories[k]
          first == dir[FirstOf(PositionsOf(dir, cat.name))]
      IN  cat.order = (IF first.data.categoryOrder = Undefined
                       THEN Num(999)
                       ELSE first.data.categoryOrder)

(***************************************************************************)
(* C5. Within every category the items are in ascending order of `order`,  *)
(* and items of equal order are in the order their files were enumerated.  *)
(***************************************************************************)
C5_ItemsSortedStable ==
  NavigationReturned =>
    \A k \in 1..Len(Navigation.categories) :
      LET items == Navigation.categories[k].items
      IN  \A i, j \in 1..Len(items) :
            i < j =>
              /\ items[i].order.v <= items[j].order.v
              /\ items[i].order.v = items[j].order.v =>
                   PositionOfSlug(dir, items[i].slug) < PositionOfSlug(dir, items[j].slug)

\* C5 witness: a category of three items, the sort moved a later file to the
\* front and kept two files of equal order in enumeration order
C5_Witness ==
  /\ NavigationReturned
  /\ \E k \in 1..Len(Navigation.categories) :
       LET items == Navigation.categories[k].items
       IN  /\ Len(items) = 3
           /\ items[1].order.v < items[2].order.v
           /\ items[2].order.v = items[3].order.v
           /\ PositionOfSlug(dir, items[1].slug) > PositionOfSlug(dir, items[3].slug)

(***************************************************************************)
(* C6. Navigation.categories is in ascending order of the category order,  *)
(* and categories of equal order are in the order in which their names     *)
(* were first met among the categorized files.                             *)
(***************************************************************************)
C6_CategoriesSortedStable ==
  NavigationReturned =>
    LET cats == Navigation.categories
    IN  \A i, j \in 1..Len(cats) :
          i < j =>
            /\ cats[i].order.v <= cats[j].order.v
            /\ cats[i].order.v = cats[j].order.v =>
                 FirstOf(PositionsOf(dir, cats[i].name))
                   < FirstOf(PositionsOf(dir, cats[j].name))

\* C6 witness: the sort moved the later-met category first; and elsewhere two
\* categories tie
C6_Witness ==
  /\ NavigationReturned
  /\ Len(Navigation.categories) = 2
  /\ Navigation.categories[1].order.v < Navigation.categories[2].order.v
  /\ FirstOf(PositionsOf(dir, Navigation.categories[1].name))
       > FirstOf(PositionsOf(dir, Navigation.categories[2].name))

(***************************************************************************)
(* C7. getHandbookNavigation() returns exactly one category per distinct   *)
(* category name declared by a file other than index.md, each holding      *)
(* exactly the pages of the files other than index.md that declare that    *)
(* name, and its introduction is the page of index.md whenever index.md    *)
(* exists. Fails on the code: a file named '.md' shares the empty slug     *)
(* with index.md (C10), so it is left out of its category and can be       *)
(* taken for the introduction.                                             *)
(***************************************************************************)
\* positions of the markdown files other than index.md that declare a category
NonIndexDeclaring(d) ==
  {i \in MdPositions(d) : d[i].name # IndexMd /\ Truthy(d[i].data.category)}

\* two category fields name the same category, or both name none
SameCategory(a, b) == (Truthy(a) \/ Truthy(b)) => a = b

C7_OneCategoryPerDeclaredName ==
  NavigationReturned =>
    LET cats == Navigation.categories
        declared == {dir[i].data.category.v : i \in NonIndexDeclaring(dir)}
    IN  /\ {cats[k].name : k \in 1..Len(cats)} = declared
        /\ Len(cats) = Cardinality(declared)
        /\ \A k \in 1..Len(cats) :
             LET files == {i \in NonIndexDeclaring(dir) :
                             dir[i].data.category.v = cats[k].name}
                 items == cats[k].items
             IN  /\ {items[n].slug : n \in 1..Len(items)}
                      = {SlugOfFile(dir[i].name) : i \in files}
                 /\ Len(items) = Cardinality(files)
        /\ ExistsSync(dir, IndexMd) =>
             /\ IsPage(Navigation.introduction)
             /\ Navigation.introduction.slug = <<>>
             /\ SameCategory(Navigation.introduction.category,
                             FileNamed(dir, IndexMd).data.category)

(***************************************************************************)
(* C8. getHandbookPage('') returns a non-null page if and only if the file  *)
(* index.md exists in the content directory. Fails as stated: an index.md  *)
(* whose front matter is malformed exists, and the call throws.            *)
(***************************************************************************)
\* getHandbookPage(slug) is the call in progress, and its outcome
PageCalled(slug) == call.op = "getHandbookPage" /\ call.slug = slug

PageOutcome == ret.getHandbookPage

C8_IndexPageIffIndexFile ==
  PageCalled(<<>>) =>
    ((Returned(PageOutcome) /\ IsPage(PageOutcome.value))
       <=> (\E i \in 1..Len(dir) : dir[i].name = IndexMd))

(***************************************************************************)
(* C8, amended. getHandbookPage('') returns a non-null page if and only if  *)
(* index.md exists and its front matter parses; it returns null if and     *)
(* only if index.md does not exist; it throws if and only if index.md      *)
(* exists with malformed front matter.                                     *)
(***************************************************************************)
C8_IndexPageIffIndexFileParses ==
  PageCalled(<<>>) =>
    /\ (Returned(PageOutcome) /\ IsPage(PageOutcome.value))
         <=> (\E i \in 1..Len(dir) : dir[i].name = IndexMd /\ dir[i].parses)
    /\ (PageOutcome = Return(Null))
         <=> ~(\E i \in 1..Len(dir) : dir[i].name = IndexMd)
    /\ (PageOutcome = Throw)
         <=> (\E i \in 1..Len(dir) : dir[i].name = IndexMd /\ ~dir[i].parses)

\* C8 witness: index.md is there beside other files and the empty slug resolves
\* to its page
C8_Witness ==
  /\ PageCalled(<<>>)
  /\ Len(dir) > 1
  /\ \E i \in 1..Len(dir) : dir[i].name = IndexMd /\ dir[i].parses
  /\ Returned(PageOutcome)
  /\ IsPage(PageOutcome.value)
  /\ PageOutcome.value.slug = <<>>

(***************************************************************************)
(* C9. For a slug with no matching file ('<slug>.md', and index.md for the *)
(* empty slug), getHandbookPage(slug) returns null, raises no error, and   *)
(* leaves the content directory unchanged.                                 *)
(***************************************************************************)
\* no file of the directory matches the slug
NoMatchingFile(d, slug) ==
  \A i \in 1..Len(d) :
    d[i].name # (IF slug = <<>> THEN IndexMd ELSE slug \o <<".", "m", "d">>)

C9_MissingSlugReturnsNull ==
  [][(call = NoCall /\ call'.op = "getHandbookPage" /\ NoMatchingFile(dir, call'.slug))
       => (ret'.getHandbookPage = Return(Null) /\ dir' = dir)]_vars

\* C9 witness: a directory with files, none of them for the slug asked, and null
\* returned
C9_Witness ==
  /\ call.op = "getHandbookPage"
  /\ Len(dir) > 1
  /\ call.slug # <<>>
  /\ NoMatchingFile(dir, call.slug)
  /\ PageOutcome = Return(Null)

(***************************************************************************)
(* C10. The slugs of the content files are pairwise distinct: for a        *)
(* directory of distinctly named .md files getAllHandbookSlugs() holds no  *)
(* duplicate, and at most one file maps to the empty slug. Fails on the    *)
(* code: '.md' and 'index.md' both map to the empty slug.                  *)
(***************************************************************************)
C10_SlugsPairwiseDistinct ==
  SlugsReturned =>
    /\ \A i, j \in 1..Len(Slugs) : i # j => Slugs[i] # Slugs[j]
    /\ Cardinality({i \in MdPositions(dir) : SlugOfFile(dir[i].name) = <<>>}) <= 1

(***************************************************************************)
(* C11. getAllHandbookPages() returns the introduction first when there is *)
(* one, then the items of each category in the order of                    *)
(* Navigation.categories, each category's items in their sorted order,     *)
(* and nothing else.                                                       *)
(***************************************************************************)
\* getAllHandbookPages() returned, and the list it returned
PagesReturned ==
  call.op = "getAllHandbookPages" /\ Returned(ret.getAllHandbookPages)

Pages == ret.getAllHandbookPages.value

\* the number of items of the first k categories
RECURSIVE ItemsBefore(_, _)
ItemsBefore(cats, k) ==
  IF k = 0 THEN 0 ELSE ItemsBefore(cats, k - 1) + Len(cats[k].items)

C11_PagesAreIntroductionThenCategories ==
  PagesReturned =>
    LET nav == getHandbookNavigation(dir).value
        cats == nav.categories
        lead == IF IsPage(nav.introduction) THEN 1 ELSE 0
    IN  /\ Len(Pages) = lead + ItemsBefore(cats, Len(cats))
        /\ lead = 1 => Pages[1] = nav.introduction
        /\ \A k \in 1..Len(cats) :
             \A n \in 1..Len(cats[k].items) :
               Pages[lead + ItemsBefore(cats, k - 1) + n] = cats[k].items[n]

\* C11 witness: an introduction and two categories, three pages in all
C11_Witness ==
  /\ PagesReturned
  /\ Len(Pages) = 3
  /\ Pages[1].slug = <<>>
  /\ Len(getHandbookNavigation(dir).value.categories) = 2

(***************************************************************************)
(* C12. slugifyCategory lower-cases the name, replaces each maximal run of *)
(* characters outside [a-z0-9] by one hyphen and removes the hyphens at    *)
(* the ends: the slug is the name's letters and digits in lower case, in   *)
(* order, with one hyphen exactly where other characters stood between two *)
(* of them. 'Frameworks & Libraries' gives 'frameworks-libraries', and     *)
(* slugifyCategory of a slug is that slug.                                 *)
(***************************************************************************)
\* the positions of the letters and digits of a name, in order
KeptPositions(x) ==
  SelectSeq([i \in 1..Len(x) |-> i], LAMBDA i : IsAlnum(LowerChar(x[i])))

\* s is the slug the rule gives for the name x
IsSlugOf(s, x) ==
  LET kp == KeptPositions(x)
      n == Len(kp)
      Gap(i) == kp[i + 1] > kp[i] + 1
      Hyphens(i) == Cardinality({j \in 1..(i - 1) : Gap(j)})
  IN  /\ Len(s) = (IF n = 0 THEN 0 ELSE n + Hyphens(n))
      /\ \A i \in 1..n : s[i + Hyphens(i)] = LowerChar(x[kp[i]])
      /\ \A i \in 1..(n - 1) : Gap(i) => s[i + Hyphens(i) + 1] = "-"

C12_SlugifyCategoryIdempotent ==
  /\ call.op \in {"slugifyCategory", "slugifyCategory again"} =>
       /\ IsSlugOf(ret.slugifyCategory, call.category)
       /\ call.category = FrameworksAndLibraries =>
            ret.slugifyCategory
              = <<"f", "r", "a", "m", "e", "w", "o", "r", "k", "s", "-",
                  "l", "i", "b", "r", "a", "r", "i", "e", "s">>
  /\ call.op = "slugifyCategory again" => ret.again = ret.slugifyCategory

\* C12 witness: a name with a run of two other characters between a capital
\* and a letter, slugified twice
C12_Witness ==
  /\ call.op = "slugifyCategory again"
  /\ call.category = <<"A", " ", "&", "b">>
  /\ ret.again = <<"a", "-", "b">>

(***************************************************************************)
(* C13. In every category an item whose file declares no order comes after *)
(* every item of the category whose file declares one. Fails on the code:  *)
(* the default is 999, and a declared order above 999 sorts after it.      *)
(***************************************************************************)
\* the order the file of a category item declares
DeclaredOrder(d, item) == d[PositionOfSlug(d, item.slug)].data.order

C13_UndeclaredOrderSortsLast ==
  NavigationReturned =>
    \A k \in 1..Len(Navigation.categories) :
      LET items == Navigation.categories[k].items
      IN  \A i, j \in 1..Len(items) :
            (DeclaredOrder(dir, items[i]) = Undefined
               /\ DeclaredOrder(dir, items[j]) # Undefined) => j < i

(***************************************************************************)
(* C14. getHandbookPage applies the defaults for missing front-matter      *)
(* fields (title: the requested slug, description: '', keywords: [],       *)
(* order: 999, category: absent) and returns a declared field as declared. *)
(* Fails as stated: a title or a category declared as '' is falsy and is   *)
(* replaced by the default.                                                *)
(***************************************************************************)
\* getHandbookPage returned a page, and the front matter of the file it read
PageReturned ==
  call.op = "getHandbookPage" /\ Returned(PageOutcome) /\ IsPage(PageOutcome.value)

DataOfSlug(d, slug) ==
  LET name == IF slug = <<>> THEN IndexMd ELSE slug \o <<".", "m", "d">>
  IN  d[CHOOSE i \in 1..Len(d) : d[i].name = name].data

\* the declared value, the default when the field is missing
DeclaredOr(declared, default) == IF declared = Undefined THEN default ELSE declared

C14_DefaultsElseAsDeclared ==
  PageReturned =>
    LET data == DataOfSlug(dir, call.slug)
        page == PageOutcome.value
    IN  /\ page.title = DeclaredOr(data.title, Str(call.slug))
        /\ page.description = DeclaredOr(data.description, Str(<<>>))
        /\ page.keywords = DeclaredOr(data.keywords, [t |-> "array", v |-> <<>>])
        /\ page.order = DeclaredOr(data.order, Num(999))
        /\ page.category = DeclaredOr(data.category, Undefined)

(***************************************************************************)
(* C14, amended. getHandbookPage applies the defaults for front-matter     *)
(* fields that are missing, and also for a title or a category declared    *)
(* as ''; every other declared field, an order of 0 included, is returned  *)
(* as declared.                                                            *)
(***************************************************************************)
\* a string field is declared and not ''
NonEmpty(declared) == declared # Undefined /\ declared # Str(<<>>)

C14_DefaultsElseAsDeclaredNonEmpty ==
  PageReturned =>
    LET data == DataOfSlug(dir, call.slug)
        page == PageOutcome.value
    IN  /\ page.title = (IF NonEmpty(data.title) THEN data.title ELSE Str(call.slug))
        /\ page.description = DeclaredOr(data.description, Str(<<>>))
        /\ page.keywords = DeclaredOr(data.keywords, [t |-> "array", v |-> <<>>])
        /\ page.order = DeclaredOr(data.order, Num(999))
        /\ page.category = (IF NonEmpty(data.category) THEN data.category ELSE Undefined)

\* C14 witness: beside a file, a page whose file declares nothing gets every
\* default
C14_Witness ==
  /\ PageReturned
  /\ Len(dir) > 1
  /\ call.slug = <<"a">>
  /\ DataOfSlug(dir, call.slug) = NoFrontMatter
  /\ PageOutcome.value.title = Str(<<"a">>)
  /\ PageOutcome.value.order = Num(999)
  /\ PageOutcome.value.category = Undefined

(***************************************************************************)
(* C15. A front-matter parse error in one content file is fatal for that   *)
(* file only: getHandbookNavigation() still returns the introduction and   *)
(* the categories built from all the other files, and getHandbookPage of   *)
(* any other slug still succeeds. Fails on the code: matter() throws       *)
(* inside the .map over all files, so getHandbookNavigation() throws.      *)
(***************************************************************************)
\* the directory without the files whose front matter does not parse
ParsingFiles(d) == SelectSeq(d, LAMBDA f : f.parses)

C15_ParseErrorIsLocal ==
  /\ call.op = "getHandbookNavigation" =>
       ret.getHandbookNavigation = getHandbookNavigation(ParsingFiles(dir))
  /\ (call.op = "getHandbookPage"
        /\ \E i \in 1..Len(dir) :
             /\ dir[i].parses
             /\ dir[i].name
                  = (IF call.slug = <<>> THEN IndexMd ELSE call.slug \o <<".", "m", "d">>))
       => PageReturned

C17_BreadcrumbDepth ==
  Rendered =>
    LET items == Render.breadcrumbJsonLd.itemListElement
        page == Render.page
        n == IF page.category = Undefined THEN 3 ELSE 4
    IN  /\ Len(items) = n
        /\ \A i \in 1..Len(items) : items[i].position = i
        /\ items[1].name = Str(<<"H", "o", "m", "e">>)
        /\ items[2].item = Str(HandbookUrl)
        /\ n = 4 => items[3].name = page.category
        /\ items[n].name = page.title
        /\ items[n].item = Str(HandbookUrl \o <<"/">> \o call.slug)

\* C17 witness: the page of a file that declares a category, four levels
C17_Witness ==
  /\ Rendered
  /\ Render.page.category = Str(CategoryNames[2])
  /\ Len(Render.breadcrumbJsonLd.itemListElement) = 4
  /\ Render.breadcrumbJsonLd.itemListElement[4].name = Render.page.title

(***************************************************************************)
(* C18. getPersonalInfo returns the placeholder 'Your Name' when the key   *)
(* 'name' is absent or empty and 'Professional Title' when 'title' is      *)
(* absent or empty; a non-empty name or title is returned unchanged; each  *)
(* optional field is returned as stored and is absent when its key is.     *)
(***************************************************************************)
C18_PersonalInfoDefaults ==
  call.op = "getPersonalInfo" =>
    LET store == call.store
        info == ret.getPersonalInfo
        Missing(v) == v = Undefined \/ v = Str(<<>>)
    IN  /\ info.name
             = (IF Missing(store["name"])
                THEN Str(<<"Y", "o", "u", "r", " ", "N", "a", "m", "e">>)
                ELSE store["name"])
        /\ info.title
             = (IF Missing(store["title"])
                THEN Str(<<"P", "r", "o", "f", "e", "s", "s", "i", "o", "n", "a", "l",
                           " ", "T", "i", "t", "l", "e">>)
                ELSE store["title"])
        /\ \A key \in PersonalInfoKeys \ {"name", "title"} : info[key] = store[key]

\* C18 witness: name absent, title empty, linkedin stored, github absent
C18_Witness ==
  /\ call.op = "getPersonalInfo"
  /\ call.store["name"] = Undefined
  /\ call.store["title"] = Str(<<>>)
  /\ call.store["linkedin"] = Str(<<"x">>)
  /\ call.store["github"] = Undefined
  /\ ret.getPersonalInfo.name = Str(YourName)
  /\ ret.getPersonalInfo.title = Str(ProfessionalTitle)
  /\ ret.getPersonalInfo.linkedin = Str(<<"x">>)
  /\ ret.getPersonalInfo.github = Undefined

(***************************************************************************)
(* C19. Every item getHandbookNavigation() places in a category has a      *)
(* non-empty slug and declares that category; the page of index.md is in   *)
(* no category even when index.md declares one; a page of another file     *)
(* that declares no category is neither the introduction nor in any        *)
(* category. Fails on the code: a file named '.md' without a category has  *)
(* the empty slug (C10) and is taken for the introduction.                 *)
(***************************************************************************)
C19_PartitionOfPages ==
  NavigationReturned =>
    LET cats == Navigation.categories
        InCategory(slug) ==
          \E k \in 1..Len(cats) :
            \E n \in 1..Len(cats[k].items) : cats[k].items[n].slug = slug
    IN  /\ \A k \in 1..Len(cats) :
             \A n \in 1..Len(cats[k].items) :
               LET item == cats[k].items[n]
               IN  /\ item.slug # <<>>
                   /\ dir[PositionOfSlug(dir, item.slug)].name # IndexMd
                   /\ dir[PositionOfSlug(dir, item.slug)].data.category
                        = Str(cats[k].name)
        /\ ~InCategory(<<>>)
        /\ \A i \in MdPositions(dir) :
             (dir[i].name # IndexMd /\ ~Truthy(dir[i].data.category)) =>
               /\ Navigation.introduction # NavItemOf(dir[i])
               /\ ~InCategory(SlugOfFile(dir[i].name))

(***************************************************************************)
(* C20. A NavItem is a projection of the page's metadata: for every slug   *)
(* in the navigation (the introduction or a category item) the NavItem's   *)
(* title, order, category and categoryOrder are the values                 *)
(* getHandbookPage(slug) returns, also for fields the file omits. Fails on *)
(* the code: an omitted categoryOrder is 999 in the NavItem and undefined  *)
(* in the page, and the untitled index page is 'index' in the NavItem and  *)
(* '' in the page.                                                         *)
(***************************************************************************)
\* the NavItems of a Navigation
NavItems(nav) ==
  (IF IsPage(nav.introduction) THEN {nav.introduction} ELSE {})
  \cup UNION {{nav.categories[k].items[n] : n \in 1..Len(nav.categories[k].items)} :
                k \in 1..Len(nav.categories)}

C20_NavItemProjectsPage ==
  NavigationReturned =>
    \A item \in NavItems(Navigation) :
      LET page == getHandbookPage(dir, item.slug)
      IN  /\ Returned(page)
          /\ IsPage(page.value)
          /\ item.title = page.value.title
          /\ item.order = page.value.order
          /\ SameCategory(item.category, page.value.category)
          /\ item.categoryOrder = page.value.categoryOrder

(***************************************************************************)
(* C21. When the requested slug has no content file, the article route     *)
(* ends in not-found: HandbookArticlePage calls notFound() and builds no    *)
(* JSON-LD and no ArticleContent, and generateMetadata returns the title    *)
(* 'Page Not Found' and nothing else.                                       *)
(***************************************************************************)
RouteCalled(op) == call.op = op /\ NoMatchingFile(dir, call.slug)

C21_MissingSlugIsNotFound ==
  /\ RouteCalled("HandbookArticlePage") => ret.HandbookArticlePage = NotFound
  /\ RouteCalled("generateMetadata") =>
       ret.generateMetadata = Return([title |-> Str(PageNotFound)])

(***************************************************************************)
(* C22. A rendered page without a category has no FAQ block, no 'about'    *)
(* and the articleSection 'Technology'. A page with a category has an FAQ  *)
(* block exactly for 'Fundamentals', 'Frameworks & Libraries' and          *)
(* 'Career', of one question answered by the page description, and has     *)
(* 'about' exactly for the categories that categoryMeta lists.             *)
(***************************************************************************)
FaqCategories == {Fundamentals, FrameworksAndLibraries, Career}

CategoryMetaNames == {Fundamentals, FrameworksAndLibraries, AdvancedTopics, Career}

HasFaq(render) == "mainEntity" \in DOMAIN render.faqJsonLd

HasAbout(render) == "about" \in DOMAIN render.articleJsonLd

C22_SeoFieldsFollowCategory ==
  Rendered =>
    IF ~Truthy(Render.page.category)
    THEN /\ Render.faqJsonLd = Null
         /\ ~HasAbout(Render)
         /\ Render.articleJsonLd.articleSection = Str(Technology)
    ELSE /\ HasFaq(Render) <=> Render.page.category.v \in FaqCategories
         /\ HasFaq(Render) =>
              /\ Len(Render.faqJsonLd.mainEntity) = 1
              /\ Render.faqJsonLd.mainEntity[1].acceptedAnswer.text
                   = Render.page.description
         /\ HasAbout(Render) <=> Render.page.category.v \in CategoryMetaNames
         /\ Render.articleJsonLd.articleSection = Render.page.category

(***************************************************************************)
(* C23. getHandbookPage(slug) returns a page only for a slug that          *)
(* getAllHandbookSlugs() lists for the same directory: no other string,     *)
(* 'index' included, resolves to a page.                                    *)
(***************************************************************************)
ListedSlugs(d) ==
  {getAllHandbookSlugs(d)[i] : i \in 1..Len(getAllHandbookSlugs(d))}

C23_OnlyListedSlugsResolve ==
  (call.op = "getHandbookPage" /\ Returned(PageOutcome) /\ Truthy(PageOutcome.value))
    => call.slug \in ListedSlugs(dir)

(***************************************************************************)
(* C24. On a rendered page with a category, the fragment after '#' in the  *)
(* URL of the category breadcrumb is the slug that the Navigation gives to *)
(* that category.                                                          *)
(***************************************************************************)
\* the categories of the rendered Navigation that carry the page's category name
CategoriesOfPage(render) ==
  {c \in {render.navigation.categories[i] :
            i \in 1..Len(render.navigation.categories)} :
     c.name = render.page.category.v}

C24_BreadcrumbAnchorIsCategorySlug ==
  (Rendered /\ Truthy(Render.page.category)) =>
    \A c \in CategoriesOfPage(Render) :
      Render.breadcrumbJsonLd.itemListElement[3].item
        = Str(HandbookUrl \o <<"#">> \o c.slug)

(***************************************************************************)
(* C25. The categories of the Navigation the Sidebar renders have pairwise *)
(* distinct slugs, so a React key and an entry of expandedCategories stand *)
(* for one category.                                                       *)
(***************************************************************************)
C25_CategorySlugsDistinct ==
  \A i, j \in 1..Len(ret.navigation.categories) :
    ret.navigation.categories[i].slug = ret.navigation.categories[j].slug
      => i = j

(***************************************************************************)
(* C26. The list getAllHandbookPages() returns repeats no slug, has one    *)
(* entry per categorized file and one more when a file has the empty slug  *)
(* of the introduction, and holds only slugs that getAllHandbookSlugs()    *)
(* returns for the same directory.                                         *)
(***************************************************************************)
\* 1 when a markdown file has the slug of the introduction, else 0
IntroductionCount(d) ==
  IF \E i \in MdPositions(d) : SlugOfFile(d[i].name) = <<>> THEN 1 ELSE 0

C26_PagesListedOnce ==
  PagesReturned =>
    /\ \A i, j \in 1..Len(Pages) : Pages[i].slug = Pages[j].slug => i = j
    /\ Len(Pages) = Cardinality(CategorizedPositions(dir)) + IntroductionCount(dir)
    /\ \A i \in 1..Len(Pages) : Pages[i].slug \in ListedSlugs(dir)

\* C26 witness: an introduction and a categorized page listed, beside a
\* markdown file that is in no category and is not listed
C26_Witness ==
  /\ PagesReturned
  /\ Len(Pages) = 2
  /\ IntroductionCount(dir) = 1
  /\ Cardinality(CategorizedPositions(dir)) = 1
  /\ Cardinality(MdPositions(dir)) = 3

(***************************************************************************)
(* C27. In the Sidebar expandedCategories is empty before mount; when the  *)
(* effects of the first commit have run it holds the category of the       *)
(* current page and nothing else, or nothing when the current page is in   *)
(* no category; and whenever the component is mounted and no effect is     *)
(* left to run, every category that holds the current page is expanded,    *)
(* whatever clicks and route changes came before.                          *)
(***************************************************************************)
\* the slugs of the categories that hold the page of the current pathname
ActiveSlugs(state) ==
  {state.navigation.categories[i].slug :
     i \in {k \in 1..Len(state.navigation.categories) :
              HasItem(state.navigation.categories[k], CurrentSlug(state.pathname))}}

Settled(state) == state.mounted /\ state.effects = "none"

C27_ActiveCategoryExpanded ==
  /\ ~ret.mounted => ret.expandedCategories = {}
  /\ call.op = "mountEffect" => ret.expandedCategories = ActiveSlugs(ret)
  /\ Settled(ret) => ActiveSlugs(ret) \subseteq ret.expandedCategories

\* C27 witness: the effects have settled after a change of the set, and the
\* category of the current page is expanded beside another
C27_Witness ==
  /\ Settled(ret)
  /\ call.op = "routeEffect"
  /\ call.changed = "expandedCategories"
  /\ ActiveSlugs(ret) # {}
  /\ ActiveSlugs(ret) # ret.expandedCategories
  /\ ActiveSlugs(ret) \subseteq ret.expandedCategories

(***************************************************************************)
(* C28. A toggleCategory(s) step flips the membership of s in              *)
(* expandedCategories and of no other slug, and the same updater applied   *)
(* to the set it stored gives back the set it started from.                *)
(***************************************************************************)
C28_ToggleFlipsOneSlug ==
  [][call'.op = "toggleCategory" =>
       LET s == call'.categorySlug
           prev == ret.expandedCategories
           next == ret'.expandedCategories
       IN  /\ s \in next <=> s \notin prev
           /\ next \ {s} = prev \ {s}
           /\ ToggleUpdater(next, s) = prev
           /\ ret'.pathname = ret.pathname /\ ret'.mounted = ret.mounted]_vars

\* C28 witness: a click has collapsed one category and left another expanded
C28_Witness ==
  /\ call.op = "toggleCategory"
  /\ call.categorySlug \notin ret.expandedCategories
  /\ ret.expandedCategories # {}

(***************************************************************************)
(* C29. After mount a route change removes no category from                *)
(* expandedCategories: the route change itself leaves the set as it is,    *)
(* and the route effect that follows adds the category of the new page     *)
(* when there is one and changes nothing when there is none.               *)
(***************************************************************************)
C29_RouteChangeOnlyAdds ==
  [][/\ call'.op = "routeChange" =>
          /\ ret.mounted
          /\ ret'.expandedCategories = ret.expandedCategories
     /\ (call'.op = "routeEffect" /\ call'.changed = "currentSlug") =>
          ret'.expandedCategories = ret.expandedCategories \cup ActiveSlugs(ret)]_vars

\* C29 witness: the route effect that ran for a new currentSlug has added the
\* category of the new page to a set that held another
C29_Witness ==
  /\ call.op = "routeEffect"
  /\ call.changed = "currentSlug"
  /\ ret.effects = "expandedCategories"
  /\ ActiveSlugs(ret) # {}
  /\ ret.expandedCategories \ ActiveSlugs(ret) # {}

====
